---- MODULE Spec2Model ----
(***************************************************************************)
(* patodo: a terminal task tracker.  The model covers the task store       *)
(* (task.go) and the interaction controller (ui.go).                       *)
(*                                                                         *)
(* Strings are sequences of one-character strings, so that TrimSpace and   *)
(* the text inputs can be computed.  A nil pointer is the empty sequence   *)
(* and a pointer to x is <<x>>.  The clock counts the windows of the       *)
(* resolution generateID formats the time with (one microsecond); every    *)
(* time.Now() read by one handler falls in the current window.             *)
(***************************************************************************)
EXTENDS Integers, Sequences, FiniteSets, TLC

(* ------------------------------ bounds -------------------------------- *)
MaxTasks == 2
MaxLen == 1
MaxClock == 1
MaxFailedWrites == 1

\* the keys a user types into the text inputs
Chars == {" ", "a"}

(* ------------------------- program constants -------------------------- *)
StatusPending == "pending"
StatusInProgress == "in-progress"
StatusDone == "done"
Statuses == {StatusPending, StatusInProgress, StatusDone}

ModeList == "ModeList"
ModeCreate == "ModeCreate"
ModeEdit == "ModeEdit"
ModeFilter == "ModeFilter"
ModeFilterCategory == "ModeFilterCategory"
ViewModes == {ModeList, ModeCreate, ModeEdit, ModeFilter, ModeFilterCategory}

DescCharLimit == 256
CatCharLimit == 50

Nil == <<>>
Ptr(x) == <<x>>
Deref(p) == p[1]

VARIABLES
    tasks,          \* TaskStore.tasks: the in-memory collection
    file,           \* the persisted file: [exists, whole, data]
    now,            \* the wall clock, in windows of generateID's resolution
    diskFull,       \* environment: os.WriteFile fails while TRUE
    failed,         \* environment: the writes of the file that failed so far
    mtasks,         \* model.tasks: the visible task list
    cursor,         \* model.cursor (0-based)
    viewMode,       \* model.viewMode
    textInput,      \* model.textInput: [value, focus]
    categoryInput,  \* model.categoryInput: [value, focus]
    filterStatus,   \* model.filterStatus (Nil or Ptr(status))
    filterCategory, \* model.filterCategory (Nil or Ptr(category))
    message,        \* model.message: [text, args]
    quitting,       \* model.quitting
    activeInput,    \* model.activeInput: 0 description, 1 category
    editingTaskID,  \* model.editingTaskID (Nil for "")
    viewAsTable,    \* model.viewAsTable
    ret,            \* the last direct call of the store: [op, opts, err, out]
    shown,          \* the category menu View last drew (<<>> outside that menu)
    pc,             \* main's position: "main", "Run" or "exit1"
    homeDir         \* environment: the state of $HOME/.config/patodo

modelVars == <<mtasks, cursor, viewMode, textInput, categoryInput, filterStatus,
               filterCategory, message, quitting, activeInput, editingTaskID,
               viewAsTable, shown>>
vars == <<tasks, file, now, diskFull, failed, mtasks, cursor, viewMode, textInput,
          categoryInput, filterStatus, filterCategory, message, quitting,
          activeInput, editingTaskID, viewAsTable, ret, shown, pc, homeDir>>
\* what every call of the store and every key handler leaves alone
hostVars == <<pc, homeDir>>

(* ------------------------------ strings ------------------------------- *)
RECURSIVE TrimLeft(_)
TrimLeft(s) == IF s # <<>> /\ Head(s) = " " THEN TrimLeft(Tail(s)) ELSE s

RECURSIVE TrimRight(_)
TrimRight(s) ==
    IF s # <<>> /\ s[Len(s)] = " " THEN TrimRight(SubSeq(s, 1, Len(s) - 1)) ELSE s

\* the input taken as typed, without trimming
TrimSpaceNone(s) == s

\* strings.TrimSpace
TrimSpace(s) == TrimRight(TrimLeft(s))

Min(a, b) == IF a < b THEN a ELSE b

RECURSIVE StrsOfLen(_)
StrsOfLen(n) ==
    IF n = 0 THEN {<<>>}
    ELSE {Append(s, c) : s \in StrsOfLen(n - 1), c \in Chars}

\* every string of at most MaxLen characters
Strs == UNION {StrsOfLen(n) : n \in 0..MaxLen}

(* ------------------------------- time --------------------------------- *)
\* time.Now(): the wall clock reading, carrying a monotonic reading
TimeNow(t) == [wall |-> t, mono |-> TRUE]

\* time.Time.Equal: the same instant
TimeEqual(a, b) == a.wall = b.wall

\* generateID: the clock reading formatted at the resolution of the layout
generateID(t) == TimeNow(t).wall

(* --------------------------- task store ------------------------------- *)
\* Task.ID of no task: the empty string
EmptyID == 0 - 1

\* a Task whose updated_at is written from the wrong field
MarshalTaskCreatedTwice(t) ==
    [id |-> t.ID, description |-> t.Description, status |-> t.Status,
     category |-> t.Category, created_at |-> t.CreatedAt.wall,
     updated_at |-> t.CreatedAt.wall]

\* encoding/json on Task: a time is written as its wall clock reading
MarshalTask(t) ==
    [id |-> t.ID, description |-> t.Description, status |-> t.Status,
     category |-> t.Category, created_at |-> t.CreatedAt.wall,
     updated_at |-> t.UpdatedAt.wall]

\* a time read back from JSON carries no monotonic reading
UnmarshalTask(j) ==
    [ID |-> j.id, Description |-> j.description, Status |-> j.status,
     Category |-> j.category,
     CreatedAt |-> [wall |-> j.created_at, mono |-> FALSE],
     UpdatedAt |-> [wall |-> j.updated_at, mono |-> FALSE]]

\* a Save that leaves the last task out
SaveOmitsLast(ts) ==
    [exists |-> TRUE, whole |-> TRUE,
     data |-> [i \in 1..(IF ts = <<>> THEN 0 ELSE Len(ts) - 1) |-> MarshalTask(ts[i])]]

\* TaskStore.Save: the whole collection, in order, overwrites the file
Save(ts) ==
    [exists |-> TRUE, whole |-> TRUE,
     data |-> [i \in 1..Len(ts) |-> MarshalTask(ts[i])]]

\* the file os.WriteFile leaves when it fails after truncating it: the
\* text breaks off and does not parse
PartialFile == [exists |-> TRUE, whole |-> FALSE, data |-> <<>>]

\* TaskStore.Load: the collection read from the file (the file exists and
\* its text is whole)
Load(f) == [i \in 1..Len(f.data) |-> UnmarshalTask(f.data[i])]

\* the tasks, last first
GetAllReversed(ts) == [i \in 1..Len(ts) |-> ts[Len(ts) + 1 - i]]

\* TaskStore.GetAll
GetAll(ts) == ts

\* TaskStore.findTaskIndex: the first index holding id, 0 when there is none
findTaskIndex(ts, id) ==
    LET S == {i \in 1..Len(ts) : ts[i].ID = id}
    IN IF S = {} THEN 0 ELSE CHOOSE i \in S : \A j \in S : i <= j

\* a call that finds no task and rewrites the file all the same
KeptAndSaved(ts) == [tasks |-> ts, saves |-> TRUE]

\* the in-memory effect of a store call, and whether the call reaches Save
Kept(ts) == [tasks |-> ts, saves |-> FALSE]
Saved(ts) == [tasks |-> ts, saves |-> TRUE]

\* the new task put in front of the collection
AddFront(ts, description, category, t) ==
    Saved(<<[ID |-> generateID(t), Description |-> description,
             Status |-> StatusPending, Category |-> category,
             CreatedAt |-> TimeNow(t), UpdatedAt |-> TimeNow(t)]>> \o ts)

\* TaskStore.Add
Add(ts, description, category, t) ==
    Saved(Append(ts, [ID |-> generateID(t), Description |-> description,
                      Status |-> StatusPending, Category |-> category,
                      CreatedAt |-> TimeNow(t), UpdatedAt |-> TimeNow(t)]))

\* TaskStore.UpdateStatus
UpdateStatus(ts, id, status, t) ==
    LET idx == findTaskIndex(ts, id)
    IN IF idx # 0
       THEN Saved([ts EXCEPT ![idx].Status = status, ![idx].UpdatedAt = TimeNow(t)])
       ELSE Kept(ts)

\* TaskStore.UpdateDescription
UpdateDescription(ts, id, description, t) ==
    LET idx == findTaskIndex(ts, id)
    IN IF idx # 0
       THEN Saved([ts EXCEPT ![idx].Description = description,
                             ![idx].UpdatedAt = TimeNow(t)])
       ELSE Kept(ts)

\* an UpdateCategory that stamps createdAt as well
UpdateCategoryStampsCreated(ts, id, category, t) ==
    LET idx == findTaskIndex(ts, id)
    IN IF idx # 0
       THEN Saved([ts EXCEPT ![idx].Category = category,
                             ![idx].CreatedAt = TimeNow(t),
                             ![idx].UpdatedAt = TimeNow(t)])
       ELSE Kept(ts)

\* TaskStore.UpdateCategory
UpdateCategory(ts, id, category, t) ==
    LET idx == findTaskIndex(ts, id)
    IN IF idx # 0
       THEN Saved([ts EXCEPT ![idx].Category = category,
                             ![idx].UpdatedAt = TimeNow(t)])
       ELSE Kept(ts)

\* TaskStore.Update
Update(ts, id, description, category, t) ==
    LET idx == findTaskIndex(ts, id)
    IN IF idx # 0
       THEN Saved([ts EXCEPT ![idx].Description = description,
                             ![idx].Category = category,
                             ![idx].UpdatedAt = TimeNow(t)])
       ELSE Kept(ts)

\* TaskStore.Delete
Delete(ts, id) ==
    LET idx == findTaskIndex(ts, id)
    IN IF idx # 0
       THEN Saved(SubSeq(ts, 1, idx - 1) \o SubSeq(ts, idx + 1, Len(ts)))
       ELSE Kept(ts)

\* a task kept when it passes either check instead of both
MatchesEither(task, opts) ==
    \/ ~(opts.Status # Nil /\ task.Status # Deref(opts.Status))
    \/ ~(opts.Category # Nil /\ task.Category # Deref(opts.Category))

\* the loop body of TaskStore.Filter: whether the task is kept
Matches(task, opts) ==
    /\ ~(opts.Status # Nil /\ task.Status # Deref(opts.Status))
    /\ ~(opts.Category # Nil /\ task.Category # Deref(opts.Category))

\* TaskStore.Filter
RECURSIVE Filter(_, _)
Filter(ts, opts) ==
    IF ts = <<>> THEN <<>>
    ELSE IF Matches(Head(ts), opts)
         THEN <<Head(ts)>> \o Filter(Tail(ts), opts)
         ELSE Filter(Tail(ts), opts)

\* a categorySet that takes the empty category as well
CategorySetAll(ts) == {ts[i].Category : i \in 1..Len(ts)}

\* the keys of categorySet in TaskStore.GetCategories
CategorySet(ts) == {ts[i].Category : i \in {j \in 1..Len(ts) : ts[j].Category # <<>>}}

\* TaskStore.GetCategories: the keys in the order one map iteration yields
\* them, which the language leaves unspecified
GetCategories(ts) ==
    LET S == CategorySet(ts)
    IN {q \in [1..Cardinality(S) -> S] : \A c \in S : \E i \in DOMAIN q : q[i] = c}

\* the files a store call can leave: the one before when the call does not
\* reach Save; the whole collection when os.WriteFile succeeds; when it
\* fails, the one before (the file could not be opened) or a partial one
\* (the write failed after the file was truncated)
Written(r) ==
    IF ~r.saves THEN {file}
    ELSE IF ~diskFull THEN {Save(r.tasks)}
    ELSE {file, PartialFile}

\* os.WriteFile as a store call runs it: the file it leaves, and one more
\* failed write when it fails
WritesFile(r) ==
    /\ (r.saves /\ diskFull) => failed < MaxFailedWrites
    /\ file' \in Written(r)
    /\ failed' = IF r.saves /\ diskFull THEN failed + 1 ELSE failed

\* the error a store call returns
Failed(r) == r.saves /\ diskFull

\* FilterOptions with both predicates nil
NoOpts == [Status |-> Nil, Category |-> Nil]

\* what a direct call of the store returned
Ret(op, opts, err, out) == [op |-> op, opts |-> opts, err |-> err, out |-> out]

(* --------------------------- text inputs ------------------------------ *)
\* a Reset that leaves the value in place
ResetKeeps(in) == in

\* textinput.Model.Reset
Reset(in) == [in EXCEPT !.value = <<>>]

\* textinput.Model.SetValue: the value, cut at the input's CharLimit
SetValue(in, v, limit) == [in EXCEPT !.value = SubSeq(v, 1, Min(Len(v), limit))]

\* textinput.Model.Focus / Blur
Focus(in) == [in EXCEPT !.focus = TRUE]
Blur(in) == [in EXCEPT !.focus = FALSE]

\* textinput.Model.Update on a typed character: a blurred input ignores it,
\* a full one takes no more
InsertRune(in, c, limit) ==
    IF in.focus /\ Len(in.value) < limit
    THEN [in EXCEPT !.value = Append(in.value, c)]
    ELSE in

\* textinput.Model.Update on backspace
DeleteBeforeCursor(in) ==
    IF in.focus /\ in.value # <<>>
    THEN [in EXCEPT !.value = SubSeq(in.value, 1, Len(in.value) - 1)]
    ELSE in

(* ---------------------------- controller ------------------------------ *)
Msg(text) == [text |-> text, args |-> <<>>]
MsgArgs(text, args) == [text |-> text, args |-> args]

\* a handler that forgets the refresh: the visible list stays as it was
refreshTasksStale(ts, fs, fc) == mtasks

\* model.refreshTasks
refreshTasks(ts, fs, fc) == Filter(ts, [Status |-> fs, Category |-> fc])

\* model.hasCurrentTask
hasCurrentTask == Len(mtasks) > 0 /\ cursor < Len(mtasks)

\* the first visible task, whatever the cursor
getFirstTask == mtasks[1]

\* model.getCurrentTask
getCurrentTask == mtasks[cursor + 1]

\* initialModel
InitModel ==
    /\ mtasks = GetAll(tasks)
    /\ cursor = 0
    /\ viewMode = ModeList
    /\ textInput = [value |-> <<>>, focus |-> TRUE]
    /\ categoryInput = [value |-> <<>>, focus |-> FALSE]
    /\ filterStatus = Nil
    /\ filterCategory = Nil
    /\ message = Msg("")
    /\ quitting = FALSE
    /\ activeInput = 0
    /\ editingTaskID = EmptyID
    /\ viewAsTable = TRUE
    /\ shown = <<>>

\* NewTaskStore with no file on disk: Load's not-exist error starts empty
InitStore ==
    /\ tasks = <<>>
    /\ file = [exists |-> FALSE, whole |-> FALSE, data |-> <<>>]
    /\ now = 0
    /\ diskFull = FALSE
    /\ failed = 0
    /\ ret = Ret("none", NoOpts, FALSE, <<>>)
    /\ pc = "Run"
    /\ homeDir = "ok"

Init == InitStore /\ InitModel

\* the host delivers key events to model.Update until tea.Quit
Running == pc = "Run" /\ ~quitting

\* what a key handler leaves alone unless it says otherwise: the clock, the
\* disk, the last direct call, and the category menu on screen
envVars == <<now, diskFull, ret, shown>>

\* model.View, ModeFilterCategory: the numbered menu is one more
\* GetCategories enumeration; the other modes draw no menu
RenderCategories(mode, ts) ==
    IF mode = ModeFilterCategory THEN GetCategories(ts) ELSE {<<>>}

\* a quit key honoured in every mode
ListQuitAnyMode ==
    /\ Running
    /\ quitting' = TRUE
    /\ UNCHANGED <<tasks, file, failed, hostVars, envVars, mtasks, cursor, viewMode, textInput,
                   categoryInput, filterStatus, filterCategory, message,
                   activeInput, editingTaskID, viewAsTable>>

\* updateListMode: "ctrl+c", "q"
ListQuit ==
    /\ Running /\ viewMode = ModeList
    /\ quitting' = TRUE
    /\ UNCHANGED <<tasks, file, failed, hostVars, envVars, mtasks, cursor, viewMode, textInput,
                   categoryInput, filterStatus, filterCategory, message,
                   activeInput, editingTaskID, viewAsTable>>

\* updateListMode: "n"
ListNew ==
    /\ Running /\ viewMode = ModeList
    /\ viewMode' = ModeCreate
    /\ textInput' = Focus(Reset(textInput))
    /\ categoryInput' = Blur(Reset(categoryInput))
    /\ activeInput' = 0
    /\ editingTaskID' = EmptyID
    /\ message' = Msg("Enter task details (Tab to switch fields, Enter to save, ESC to cancel)")
    /\ UNCHANGED <<tasks, file, failed, hostVars, envVars, mtasks, cursor, filterStatus,
                   filterCategory, quitting, viewAsTable>>

\* updateListMode: "e"
ListEdit ==
    /\ Running /\ viewMode = ModeList
    /\ IF hasCurrentTask
       THEN /\ viewMode' = ModeEdit
            /\ editingTaskID' = getCurrentTask.ID
            /\ textInput' = Focus(SetValue(textInput, getCurrentTask.Description,
                                           DescCharLimit))
            /\ categoryInput' = Blur(SetValue(categoryInput, getCurrentTask.Category,
                                              CatCharLimit))
            /\ activeInput' = 0
            /\ message' = Msg("Edit task (Tab to switch fields, Enter to save, ESC to cancel)")
       ELSE UNCHANGED <<viewMode, editingTaskID, textInput, categoryInput,
                        activeInput, message>>
    /\ UNCHANGED <<tasks, file, failed, hostVars, envVars, mtasks, cursor, filterStatus,
                   filterCategory, quitting, viewAsTable>>

\* updateListMode: "f"
ListFilter ==
    /\ Running /\ viewMode = ModeList
    /\ viewMode' = ModeFilter
    /\ message' = Msg("Filter: (a)ll, (p)ending, (i)n-progress, (d)one, (c)ategory, ESC to cancel")
    /\ UNCHANGED <<tasks, file, failed, hostVars, envVars, mtasks, cursor, textInput, categoryInput,
                   filterStatus, filterCategory, quitting, activeInput,
                   editingTaskID, viewAsTable>>

\* updateListMode: "v"
ListToggleView ==
    /\ Running /\ viewMode = ModeList
    /\ viewAsTable' = ~viewAsTable
    /\ message' = IF viewAsTable' THEN Msg("Switched to table view")
                                  ELSE Msg("Switched to list view")
    /\ UNCHANGED <<tasks, file, failed, hostVars, envVars, mtasks, cursor, viewMode, textInput,
                   categoryInput, filterStatus, filterCategory, quitting,
                   activeInput, editingTaskID>>

\* updateListMode: "up", "k"
ListUp ==
    /\ Running /\ viewMode = ModeList
    /\ cursor' = IF cursor > 0 THEN cursor - 1 ELSE cursor
    /\ UNCHANGED <<tasks, file, failed, hostVars, envVars, mtasks, viewMode, textInput,
                   categoryInput, filterStatus, filterCategory, message, quitting,
                   activeInput, editingTaskID, viewAsTable>>

\* a "down" that goes back to the first row from the last one
ListDownWraps ==
    /\ Running /\ viewMode = ModeList
    /\ cursor' = IF cursor < Len(mtasks) - 1 THEN cursor + 1 ELSE 0
    /\ UNCHANGED <<tasks, file, failed, hostVars, envVars, mtasks, viewMode, textInput,
                   categoryInput, filterStatus, filterCategory, message, quitting,
                   activeInput, editingTaskID, viewAsTable>>

\* updateListMode: "down", "j"
ListDown ==
    /\ Running /\ viewMode = ModeList
    /\ cursor' = IF cursor < Len(mtasks) - 1 THEN cursor + 1 ELSE cursor
    /\ UNCHANGED <<tasks, file, failed, hostVars, envVars, mtasks, viewMode, textInput,
                   categoryInput, filterStatus, filterCategory, message, quitting,
                   activeInput, editingTaskID, viewAsTable>>

\* model.updateTaskStatus followed by the handler's own message: the store
\* call, the refresh, and the message the handler assigns last
SetStatus(status, text) ==
    IF hasCurrentTask
    THEN LET r == UpdateStatus(tasks, getCurrentTask.ID, status, now)
         IN /\ tasks' = r.tasks
            /\ WritesFile(r)
            /\ UNCHANGED hostVars
            /\ mtasks' = refreshTasks(r.tasks, filterStatus, filterCategory)
            /\ message' = Msg(text)
    ELSE UNCHANGED <<tasks, file, failed, hostVars, mtasks, message>>

\* a d that marks the task done whatever its status
ListDoneOneWay ==
    /\ Running /\ viewMode = ModeList
    /\ SetStatus(StatusDone, "Task marked as done!")
    /\ UNCHANGED <<envVars, cursor, viewMode, textInput, categoryInput,
                   filterStatus, filterCategory, quitting, activeInput,
                   editingTaskID, viewAsTable>>

\* updateListMode: "d"
ListDone ==
    /\ Running /\ viewMode = ModeList
    /\ IF hasCurrentTask /\ getCurrentTask.Status = StatusDone
       THEN SetStatus(StatusPending, "Task marked as pending")
       ELSE SetStatus(StatusDone, "Task marked as done!")
    /\ UNCHANGED <<envVars, cursor, viewMode, textInput, categoryInput,
                   filterStatus, filterCategory, quitting, activeInput,
                   editingTaskID, viewAsTable>>

\* updateListMode: "i"
ListInProgress ==
    /\ Running /\ viewMode = ModeList
    /\ SetStatus(StatusInProgress, "Task marked as in-progress")
    /\ UNCHANGED <<envVars, cursor, viewMode, textInput, categoryInput,
                   filterStatus, filterCategory, quitting, activeInput,
                   editingTaskID, viewAsTable>>

\* updateListMode: "p"
ListPending ==
    /\ Running /\ viewMode = ModeList
    /\ SetStatus(StatusPending, "Task marked as pending")
    /\ UNCHANGED <<envVars, cursor, viewMode, textInput, categoryInput,
                   filterStatus, filterCategory, quitting, activeInput,
                   editingTaskID, viewAsTable>>

\* the cursor after a delete: one step back when it points past the end
ClampAfterDelete(c, visible) == IF c >= Len(visible) /\ c > 0 THEN c - 1 ELSE c

\* updateListMode: "x"
ListDelete ==
    /\ Running /\ viewMode = ModeList
    /\ IF hasCurrentTask
       THEN LET r == Delete(tasks, getCurrentTask.ID)
                visible == refreshTasks(r.tasks, filterStatus, filterCategory)
            IN /\ tasks' = r.tasks
               /\ WritesFile(r)
               /\ UNCHANGED hostVars
               /\ message' = IF Failed(r) THEN Msg("Error deleting task: %v")
                                          ELSE Msg("Task deleted")
               /\ mtasks' = visible
               /\ cursor' = ClampAfterDelete(cursor, visible)
       ELSE UNCHANGED <<tasks, file, failed, hostVars, message, mtasks, cursor>>
    /\ UNCHANGED <<envVars, viewMode, textInput, categoryInput, filterStatus,
                   filterCategory, quitting, activeInput, editingTaskID,
                   viewAsTable>>

\* updateListMode: any other key
ListOther ==
    /\ Running /\ viewMode = ModeList
    /\ UNCHANGED vars

\* a Tab that moves activeInput and leaves the focus where it was
SwitchInputKeepsFocus ==
    /\ activeInput' = 1 - activeInput
    /\ UNCHANGED <<textInput, categoryInput>>
    /\ UNCHANGED <<tasks, file, failed, hostVars, envVars, mtasks, cursor, viewMode, filterStatus,
                   filterCategory, message, quitting, editingTaskID, viewAsTable>>

\* updateCreateMode / updateEditMode: tea.KeyTab
SwitchInput ==
    /\ IF activeInput = 0
       THEN /\ activeInput' = 1
            /\ textInput' = Blur(textInput)
            /\ categoryInput' = Focus(categoryInput)
       ELSE /\ activeInput' = 0
            /\ categoryInput' = Blur(categoryInput)
            /\ textInput' = Focus(textInput)
    /\ UNCHANGED <<tasks, file, failed, hostVars, envVars, mtasks, cursor, viewMode, filterStatus,
                   filterCategory, message, quitting, editingTaskID, viewAsTable>>

\* updateCreateMode / updateEditMode: a key the handler passes to the input
\* that activeInput names; a typed character
TypeRune(c) ==
    /\ IF activeInput = 0
       THEN /\ Len(textInput.value) < MaxLen
            /\ textInput' = InsertRune(textInput, c, DescCharLimit)
            /\ UNCHANGED categoryInput
       ELSE /\ Len(categoryInput.value) < MaxLen
            /\ categoryInput' = InsertRune(categoryInput, c, CatCharLimit)
            /\ UNCHANGED textInput
    /\ UNCHANGED <<tasks, file, failed, hostVars, envVars, mtasks, cursor, viewMode, filterStatus,
                   filterCategory, message, quitting, activeInput, editingTaskID,
                   viewAsTable>>

\* the same, for backspace
TypeBackspace ==
    /\ IF activeInput = 0
       THEN /\ textInput' = DeleteBeforeCursor(textInput)
            /\ UNCHANGED categoryInput
       ELSE /\ categoryInput' = DeleteBeforeCursor(categoryInput)
            /\ UNCHANGED textInput
    /\ UNCHANGED <<tasks, file, failed, hostVars, envVars, mtasks, cursor, viewMode, filterStatus,
                   filterCategory, message, quitting, activeInput, editingTaskID,
                   viewAsTable>>

\* updateCreateMode: tea.KeyEsc
CreateEsc ==
    /\ Running /\ viewMode = ModeCreate
    /\ viewMode' = ModeList
    /\ message' = Msg("Task creation cancelled")
    /\ UNCHANGED <<tasks, file, failed, hostVars, envVars, mtasks, cursor, textInput, categoryInput,
                   filterStatus, filterCategory, quitting, activeInput,
                   editingTaskID, viewAsTable>>

\* updateCreateMode: tea.KeyTab
CreateTab == Running /\ viewMode = ModeCreate /\ SwitchInput

\* updateCreateMode: tea.KeyEnter
CreateEnter ==
    /\ Running /\ viewMode = ModeCreate
    /\ LET description == TrimSpace(textInput.value)
           categoryStr == TrimSpace(categoryInput.value)
       IN IF description = <<>>
          THEN /\ message' = Msg("Task creation cancelled - description is required")
               /\ UNCHANGED <<tasks, file, failed, hostVars, mtasks>>
          ELSE IF categoryStr = <<>>
          THEN /\ message' = Msg("Task creation cancelled - category is required")
               /\ UNCHANGED <<tasks, file, failed, hostVars, mtasks>>
          ELSE /\ Len(tasks) < MaxTasks
               /\ LET r == Add(tasks, description, categoryStr, now)
                  IN /\ tasks' = r.tasks
                     /\ WritesFile(r)
                     /\ UNCHANGED hostVars
                     /\ message' = IF Failed(r)
                                   THEN Msg("Error creating task: %v")
                                   ELSE MsgArgs("Task created: %s [%s]",
                                                <<description, categoryStr>>)
                     /\ mtasks' = refreshTasks(r.tasks, filterStatus, filterCategory)
    /\ viewMode' = ModeList
    /\ UNCHANGED <<envVars, cursor, textInput, categoryInput, filterStatus,
                   filterCategory, quitting, activeInput, editingTaskID,
                   viewAsTable>>

\* updateCreateMode: a typed character
CreateType == Running /\ viewMode = ModeCreate /\ \E c \in Chars : TypeRune(c)

\* updateCreateMode: backspace
CreateBackspace == Running /\ viewMode = ModeCreate /\ TypeBackspace

\* an Esc that leaves the edit target in place
EditEscKeepsTarget ==
    /\ Running /\ viewMode = ModeEdit
    /\ viewMode' = ModeList
    /\ message' = Msg("Edit cancelled")
    /\ UNCHANGED <<tasks, file, failed, hostVars, envVars, mtasks, cursor, textInput, categoryInput,
                   filterStatus, filterCategory, quitting, activeInput,
                   editingTaskID, viewAsTable>>

\* updateEditMode: tea.KeyEsc
EditEsc ==
    /\ Running /\ viewMode = ModeEdit
    /\ viewMode' = ModeList
    /\ message' = Msg("Edit cancelled")
    /\ editingTaskID' = EmptyID
    /\ UNCHANGED <<tasks, file, failed, hostVars, envVars, mtasks, cursor, textInput, categoryInput,
                   filterStatus, filterCategory, quitting, activeInput,
                   viewAsTable>>

\* updateEditMode: tea.KeyTab
EditTab == Running /\ viewMode = ModeEdit /\ SwitchInput

\* an Enter that saves the description without looking at it
EditEnterUnchecked ==
    /\ Running /\ viewMode = ModeEdit
    /\ LET description == TrimSpace(textInput.value)
           categoryStr == TrimSpace(categoryInput.value)
           r == Update(tasks, editingTaskID, description, categoryStr, now)
       IN /\ tasks' = r.tasks
          /\ WritesFile(r)
          /\ UNCHANGED hostVars
          /\ message' = IF Failed(r) THEN Msg("Error updating task: %v")
                                     ELSE Msg("Task updated successfully")
          /\ mtasks' = refreshTasks(r.tasks, filterStatus, filterCategory)
    /\ editingTaskID' = EmptyID
    /\ viewMode' = ModeList
    /\ UNCHANGED <<envVars, cursor, textInput, categoryInput, filterStatus,
                   filterCategory, quitting, activeInput, viewAsTable>>

\* updateEditMode: tea.KeyEnter
EditEnter ==
    /\ Running /\ viewMode = ModeEdit
    /\ LET description == TrimSpace(textInput.value)
           categoryStr == TrimSpace(categoryInput.value)
       IN IF description = <<>>
          THEN /\ message' = Msg("Edit cancelled - description is required")
               /\ UNCHANGED <<tasks, file, failed, hostVars, mtasks>>
          ELSE LET r == Update(tasks, editingTaskID, description, categoryStr, now)
               IN /\ tasks' = r.tasks
                  /\ WritesFile(r)
                  /\ UNCHANGED hostVars
                  /\ message' = IF Failed(r) THEN Msg("Error updating task: %v")
                                             ELSE Msg("Task updated successfully")
                  /\ mtasks' = refreshTasks(r.tasks, filterStatus, filterCategory)
    /\ editingTaskID' = EmptyID
    /\ viewMode' = ModeList
    /\ UNCHANGED <<envVars, cursor, textInput, categoryInput, filterStatus,
                   filterCategory, quitting, activeInput, viewAsTable>>

\* updateEditMode: a typed character
EditType == Running /\ viewMode = ModeEdit /\ \E c \in Chars : TypeRune(c)

\* updateEditMode: backspace
EditBackspace == Running /\ viewMode = ModeEdit /\ TypeBackspace

\* a cancel that goes back to the filter menu
FilterCancelledToMenu ==
    /\ viewMode' = ModeFilter
    /\ message' = Msg("Filter cancelled")
    /\ shown' \in RenderCategories(viewMode', tasks)
    /\ UNCHANGED <<tasks, file, failed, hostVars, now, diskFull, ret, mtasks, cursor, textInput, categoryInput,
                   filterStatus, filterCategory, quitting, activeInput,
                   editingTaskID, viewAsTable>>

\* a cancel that also drops the active filters
FilterCancelledClears ==
    /\ viewMode' = ModeList
    /\ message' = Msg("Filter cancelled")
    /\ filterStatus' = Nil
    /\ filterCategory' = Nil
    /\ shown' \in RenderCategories(viewMode', tasks)
    /\ UNCHANGED <<tasks, file, failed, hostVars, now, diskFull, ret, mtasks, cursor, textInput, categoryInput,
                   quitting, activeInput, editingTaskID, viewAsTable>>

\* updateFilterMode / updateFilterCategoryMode: "esc"
FilterCancelled ==
    /\ viewMode' = ModeList
    /\ message' = Msg("Filter cancelled")
    /\ shown' \in RenderCategories(viewMode', tasks)
    /\ UNCHANGED <<tasks, file, failed, hostVars, now, diskFull, ret, mtasks, cursor, textInput, categoryInput,
                   filterStatus, filterCategory, quitting, activeInput,
                   editingTaskID, viewAsTable>>

\* the filters set, the visible list refreshed, back to the list at row 0
FilterApplied(fs, fc, text) ==
    /\ filterStatus' = fs
    /\ filterCategory' = fc
    /\ mtasks' = refreshTasks(tasks, fs, fc)
    /\ viewMode' = ModeList
    /\ message' = text
    /\ cursor' = 0
    /\ shown' \in RenderCategories(viewMode', tasks)
    /\ UNCHANGED <<tasks, file, failed, hostVars, now, diskFull, ret, textInput, categoryInput, quitting,
                   activeInput, editingTaskID, viewAsTable>>

\* a status choice that forgets the category filter in force
applyStatusFilterDropsCategory(status, text) == FilterApplied(Ptr(status), Nil, Msg(text))

\* model.applyStatusFilter
applyStatusFilter(status, text) == FilterApplied(Ptr(status), filterCategory, Msg(text))

\* updateFilterMode: "esc"
FilterEsc == Running /\ viewMode = ModeFilter /\ FilterCancelled

\* updateFilterMode: "a"
FilterAll ==
    /\ Running /\ viewMode = ModeFilter
    /\ FilterApplied(Nil, Nil, Msg("Showing all tasks"))

\* updateFilterMode: "p"
FilterPending ==
    /\ Running /\ viewMode = ModeFilter
    /\ applyStatusFilter(StatusPending, "Showing pending tasks")

\* updateFilterMode: "i"
FilterInProgress ==
    /\ Running /\ viewMode = ModeFilter
    /\ applyStatusFilter(StatusInProgress, "Showing in-progress tasks")

\* updateFilterMode: "d"
FilterDone ==
    /\ Running /\ viewMode = ModeFilter
    /\ applyStatusFilter(StatusDone, "Showing done tasks")

\* updateFilterMode: "c"
FilterByCategory ==
    /\ Running /\ viewMode = ModeFilter
    /\ viewMode' = ModeFilterCategory
    /\ message' = Msg("Select category to filter by")
    /\ shown' \in RenderCategories(viewMode', tasks)
    /\ UNCHANGED <<tasks, file, failed, hostVars, now, diskFull, ret, mtasks, cursor, textInput, categoryInput,
                   filterStatus, filterCategory, quitting, activeInput,
                   editingTaskID, viewAsTable>>

\* updateFilterMode: any other key
FilterOther ==
    /\ Running /\ viewMode = ModeFilter
    /\ UNCHANGED vars

\* updateFilterCategoryMode: "esc"
FilterCategoryEsc == Running /\ viewMode = ModeFilterCategory /\ FilterCancelled

\* an "a" of the category menu that clears the status filter as well
FilterCategoryAllDropsStatus ==
    /\ Running /\ viewMode = ModeFilterCategory
    /\ FilterApplied(Nil, Nil, Msg("Showing all categories"))

\* updateFilterCategoryMode: "a"
FilterCategoryAll ==
    /\ Running /\ viewMode = ModeFilterCategory
    /\ FilterApplied(filterStatus, Nil, Msg("Showing all categories"))

\* the digit keys
Digits == 1..9

\* a key without a meaning that closes the menu
MenuClosed ==
    /\ viewMode' = ModeList
    /\ shown' \in RenderCategories(viewMode', tasks)
    /\ UNCHANGED <<tasks, file, failed, hostVars, now, diskFull, ret, mtasks, cursor,
                   textInput, categoryInput, filterStatus, filterCategory,
                   message, quitting, activeInput, editingTaskID, viewAsTable>>

\* a key that changes nothing in ModeFilterCategory: the model is returned
\* as it was and the menu is drawn again
MenuRedrawn ==
    /\ shown' \in RenderCategories(viewMode, tasks)
    /\ UNCHANGED <<tasks, file, failed, hostVars, now, diskFull, ret, mtasks, cursor, viewMode,
                   textInput, categoryInput, filterStatus, filterCategory,
                   message, quitting, activeInput, editingTaskID, viewAsTable>>

\* updateFilterCategoryMode: the digit key of the given number; idx is the
\* digit less one, and categories is a fresh GetCategories enumeration
FilterCategoryKey(digit) ==
    /\ Running /\ viewMode = ModeFilterCategory
    /\ \E categories \in GetCategories(tasks) :
         IF digit - 1 < Len(categories)
         THEN FilterApplied(filterStatus, Ptr(categories[digit]),
                            MsgArgs("Showing tasks in category: %s",
                                    <<categories[digit]>>))
         ELSE MenuRedrawn

\* updateFilterCategoryMode: a digit key "1".."9"
FilterCategoryDigit == \E digit \in Digits : FilterCategoryKey(digit)

\* updateFilterCategoryMode: any other key
FilterCategoryOther ==
    /\ Running /\ viewMode = ModeFilterCategory
    /\ MenuRedrawn

\* the wall clock moves on to the next window
Tick ==
    /\ now < MaxClock
    /\ now' = now + 1
    /\ UNCHANGED <<tasks, file, failed, hostVars, diskFull, ret, modelVars>>

Next ==
    \/ ListQuit \/ ListNew \/ ListEdit \/ ListFilter \/ ListToggleView
    \/ ListUp \/ ListDown \/ ListDone \/ ListInProgress \/ ListPending
    \/ ListDelete \/ ListOther
    \/ CreateEsc \/ CreateTab \/ CreateEnter \/ CreateType \/ CreateBackspace
    \/ EditEsc \/ EditTab \/ EditEnter \/ EditType \/ EditBackspace
    \/ FilterEsc \/ FilterAll \/ FilterPending \/ FilterInProgress \/ FilterDone
    \/ FilterByCategory \/ FilterOther
    \/ FilterCategoryEsc \/ FilterCategoryAll \/ FilterCategoryDigit
    \/ FilterCategoryOther
    \/ Tick

\* the interactive program: key events handled one at a time
Spec == Init /\ [][Next]_vars

(* ------------------- the store called directly ------------------------ *)
\* the ids a caller passes: those the clock can have produced, and ""
CallIDs == (0..MaxClock) \cup {EmptyID}

\* the FilterOptions a caller passes
CallOpts ==
    [Status : {Nil} \cup {Ptr(st) : st \in Statuses},
     Category : {Nil} \cup {Ptr(c) : c \in Strs}]

\* a mutating call: the collection, the file, and the error returned
StoreCall(op, r) ==
    /\ tasks' = r.tasks
    /\ WritesFile(r)
    /\ UNCHANGED hostVars
    /\ ret' = Ret(op, NoOpts, Failed(r), <<>>)
    /\ UNCHANGED <<now, diskFull, modelVars>>

StoreAdd ==
    /\ Len(tasks) < MaxTasks
    /\ \E d \in Strs, c \in Strs : StoreCall("Add", Add(tasks, d, c, now))

StoreUpdateStatus ==
    \E id \in CallIDs, st \in Statuses :
        StoreCall("UpdateStatus", UpdateStatus(tasks, id, st, now))

StoreUpdateDescription ==
    \E id \in CallIDs, d \in Strs :
        StoreCall("UpdateDescription", UpdateDescription(tasks, id, d, now))

StoreUpdateCategory ==
    \E id \in CallIDs, c \in Strs :
        StoreCall("UpdateCategory", UpdateCategory(tasks, id, c, now))

StoreUpdate ==
    \E id \in CallIDs, d \in Strs, c \in Strs :
        StoreCall("Update", Update(tasks, id, d, c, now))

StoreDelete ==
    \E id \in CallIDs : StoreCall("Delete", Delete(tasks, id))

StoreSave == StoreCall("Save", Saved(tasks))

\* a TaskStore constructed on the same file, with tasks []Task{}, calls
\* Load: os.ReadFile fails when there is no file and the store stays empty
StoreLoad ==
    /\ ret' = IF file.exists /\ file.whole
              THEN Ret("Load", NoOpts, FALSE, Load(file))
                             ELSE Ret("Load", NoOpts, TRUE, <<>>)
    /\ UNCHANGED <<tasks, file, failed, hostVars, now, diskFull, modelVars>>

StoreFilter ==
    /\ \E opts \in CallOpts : ret' = Ret("Filter", opts, FALSE, Filter(tasks, opts))
    /\ UNCHANGED <<tasks, file, failed, hostVars, now, diskFull, modelVars>>

StoreGetCategories ==
    /\ \E categories \in GetCategories(tasks) :
          ret' = Ret("GetCategories", NoOpts, FALSE, categories)
    /\ UNCHANGED <<tasks, file, failed, hostVars, now, diskFull, modelVars>>

StoreNext ==
    \/ StoreAdd \/ StoreUpdateStatus \/ StoreUpdateDescription
    \/ StoreUpdateCategory \/ StoreUpdate \/ StoreDelete \/ StoreSave
    \/ StoreLoad \/ StoreFilter \/ StoreGetCategories \/ Tick

\* a caller of the TaskStore API, as the store's tests are
StoreSpec == Init /\ [][StoreNext]_vars

(* ------------------- writes of the file that fail --------------------- *)
\* the disk fills up, or the file loses its write permission: os.WriteFile
\* fails from now on
DiskFills ==
    /\ ~diskFull
    /\ diskFull' = TRUE
    /\ UNCHANGED <<tasks, file, failed, hostVars, now, ret, modelVars>>

\* room or permission is back
DiskFrees ==
    /\ diskFull
    /\ diskFull' = FALSE
    /\ UNCHANGED <<tasks, file, failed, hostVars, now, ret, modelVars>>

\* the calls that write or read the file, and the disk
StoreFaultNext ==
    \/ StoreAdd \/ StoreUpdateStatus \/ StoreUpdateDescription
    \/ StoreUpdateCategory \/ StoreUpdate \/ StoreDelete \/ StoreSave
    \/ StoreLoad \/ DiskFills \/ DiskFrees

\* a caller of the TaskStore API, within one clock window, on a disk whose
\* writes can fail
StoreFaultSpec == Init /\ [][StoreFaultNext]_vars

\* the keys of the list, of the two forms and of the status menu, and the
\* disk
FaultNext ==
    \/ ListQuit \/ ListNew \/ ListEdit \/ ListFilter
    \/ ListUp \/ ListDown \/ ListDone \/ ListInProgress \/ ListPending
    \/ ListDelete
    \/ CreateEsc \/ CreateTab \/ CreateEnter \/ CreateType \/ CreateBackspace
    \/ EditEsc \/ EditTab \/ EditEnter \/ EditType \/ EditBackspace
    \/ FilterEsc \/ FilterAll \/ FilterPending \/ FilterInProgress \/ FilterDone
    \/ DiskFills \/ DiskFrees

\* the interactive program, within one clock window, on a disk whose
\* writes can fail
FaultSpec == Init /\ [][FaultNext]_vars

(* ------------- the program started on a file of an earlier run -------- *)
\* the categories of the tasks an earlier run saved
SeedCategories == {<<"a">>, <<"b">>}

\* the record of a task added at clock reading t, as Save wrote it
SeedRecord(t, category, status) ==
    [id |-> t, description |-> <<"a">>, status |-> status, category |-> category,
     created_at |-> t, updated_at |-> t]

\* the files an earlier run can have left: up to MaxTasks tasks, added at
\* distinct clock readings before this run started
SeedFiles ==
    UNION {{[exists |-> TRUE, whole |-> TRUE,
             data |-> [i \in 1..n |-> SeedRecord(EmptyID - i, c[i], st[i])]] :
                c \in [1..n -> SeedCategories], st \in [1..n -> Statuses]} :
           n \in 0..MaxTasks}

\* NewTaskStore when the file exists: Load fills the collection
InitLoaded ==
    /\ file \in SeedFiles
    /\ tasks = Load(file)
    /\ now = 0
    /\ diskFull = FALSE
    /\ failed = 0
    /\ ret = Ret("none", NoOpts, FALSE, <<>>)
    /\ pc = "Run"
    /\ homeDir = "ok"
    /\ InitModel

\* the keys of the list and of the two filter menus
LoadedNext ==
    \/ ListQuit \/ ListFilter \/ ListUp \/ ListDown
    \/ ListDone \/ ListInProgress \/ ListPending \/ ListDelete
    \/ FilterEsc \/ FilterAll \/ FilterPending \/ FilterInProgress \/ FilterDone
    \/ FilterByCategory \/ FilterOther
    \/ FilterCategoryEsc \/ FilterCategoryAll \/ FilterCategoryDigit
    \/ FilterCategoryOther
    \/ Tick

\* the interactive program browsing the tasks of an earlier run
LoadedSpec == InitLoaded /\ [][LoadedNext]_vars

(* ------------------------------ startup ------------------------------- *)
\* os.UserHomeDir and os.MkdirAll: $HOME is set and the data directory can
\* be made, or $HOME is unset, or the directory cannot be made
HomeDirs == {"ok", "unset", "unwritable"}

\* NewTaskStore, with every error but Load's not-exist error passed on
NewTaskStoreLenient(home, f) ==
    IF home # "ok" THEN [err |-> TRUE, tasks |-> <<>>]
    ELSE IF ~f.exists \/ ~f.whole THEN [err |-> FALSE, tasks |-> <<>>]
    ELSE [err |-> FALSE, tasks |-> Load(f)]

\* NewTaskStore: the directory, then Load; only Load's not-exist error is
\* taken as an empty store
NewTaskStore(home, f) ==
    IF home # "ok" THEN [err |-> TRUE, tasks |-> <<>>]
    ELSE IF ~f.exists THEN [err |-> FALSE, tasks |-> <<>>]
    ELSE IF ~f.whole THEN [err |-> TRUE, tasks |-> <<>>]
    ELSE [err |-> FALSE, tasks |-> Load(f)]

\* main: NewTaskStore, then os.Exit(1) or initialModel and p.Run
Main ==
    /\ pc = "main"
    /\ LET r == NewTaskStore(homeDir, file) IN
         IF r.err
         THEN /\ pc' = "exit1"
              /\ UNCHANGED <<tasks, modelVars>>
         ELSE /\ pc' = "Run"
              /\ tasks' = r.tasks
              /\ mtasks' = GetAll(r.tasks)
              /\ cursor' = 0
              /\ viewMode' = ModeList
              /\ textInput' = [value |-> <<>>, focus |-> TRUE]
              /\ categoryInput' = [value |-> <<>>, focus |-> FALSE]
              /\ filterStatus' = Nil
              /\ filterCategory' = Nil
              /\ message' = Msg("")
              /\ quitting' = FALSE
              /\ activeInput' = 0
              /\ editingTaskID' = EmptyID
              /\ viewAsTable' = TRUE
              /\ shown' = <<>>
    /\ UNCHANGED <<file, failed, now, diskFull, ret, homeDir>>

\* the files main can find: none, one an earlier run saved, or one a failed
\* write left
StartFiles ==
    {[exists |-> FALSE, whole |-> FALSE, data |-> <<>>], PartialFile} \cup SeedFiles

\* the process at the entry of main: no store and no model yet
InitStart ==
    /\ file \in StartFiles
    /\ homeDir \in HomeDirs
    /\ pc = "main"
    /\ tasks = <<>>
    /\ now = 0
    /\ diskFull = FALSE
    /\ failed = 0
    /\ ret = Ret("none", NoOpts, FALSE, <<>>)
    /\ InitModel

\* main, then the keys of the list and of the create form
StartNext ==
    \/ Main
    \/ ListQuit \/ ListNew \/ ListUp \/ ListDown
    \/ ListDone \/ ListInProgress \/ ListPending \/ ListDelete
    \/ CreateEsc \/ CreateTab \/ CreateEnter \/ CreateType \/ CreateBackspace

\* the program from the entry of main
StartSpec == InitStart /\ [][StartNext]_vars

(* ------------------------------ claims -------------------------------- *)
\* whether the ids of a collection are pairwise distinct
UniqueIDs(ts) == \A i \in 1..Len(ts) : \A j \in 1..Len(ts) : i # j => ts[i].ID # ts[j].ID

\* a string of spaces only: empty after trimming
IsBlank(str) == \A i \in 1..Len(str) : str[i] = " "

\* d is str without its leading and trailing spaces
IsTrimOf(d, str) ==
    /\ d = <<>> \/ (d[1] # " " /\ d[Len(d)] # " ")
    /\ \E i \in 0..Len(str) : \E j \in 0..Len(str) :
         /\ i + Len(d) + j = Len(str)
         /\ \A k \in 1..Len(str) :
              IF k <= i \/ k > i + Len(d) THEN str[k] = " " ELSE str[k] = d[k - i]

\* whether a task satisfies the two optional predicates
Satisfies(task, fs, fc) ==
    /\ fs = Nil \/ task.Status = Deref(fs)
    /\ fc = Nil \/ task.Category = Deref(fc)

\* the store indices of the tasks that satisfy the predicates
MatchingIndices(ts, fs, fc) == {i \in 1..Len(ts) : Satisfies(ts[i], fs, fc)}

\* the k-th smallest element of a set of indices
Nth(I, k) == CHOOSE i \in I : Cardinality({j \in I : j <= i}) = k

\* out is exactly the satisfying tasks of ts, in the order of ts
IsFilterOf(out, ts, fs, fc) ==
    LET I == MatchingIndices(ts, fs, fc)
    IN /\ Len(out) = Cardinality(I)
       /\ \A k \in 1..Len(out) : out[k] = ts[Nth(I, k)]

\* C1: after every handled input event the visible task list is the store's
\* collection filtered by the active status and category filters: the same
\* tasks in the same order.
C1_VisibleIsFiltered == IsFilterOf(mtasks, tasks, filterStatus, filterCategory)

\* C1 witness: a status shortcut under an active status filter has shrunk
\* the visible list to a proper part of the store.
C1_Witness ==
    /\ message.text = "Task marked as done!"
    /\ filterStatus = Ptr(StatusPending)
    /\ Len(tasks) = 2
    /\ Len(mtasks) = 1

\* C2: the cursor is always a valid index into the visible list: never
\* negative, below the length of a non-empty list, 0 on an empty one.
\* The claim is stated on stores whose ids are distinct, so that a violation
\* does not rest on two tasks sharing an id.
C2_CursorValid ==
    UniqueIDs(tasks) =>
        /\ cursor >= 0
        /\ Len(mtasks) > 0 => cursor < Len(mtasks)
        /\ Len(mtasks) = 0 => cursor = 0

C4_CreateAppends ==
    [][(CreateEnter /\ ~IsBlank(textInput.value) /\ ~IsBlank(categoryInput.value))
       => /\ Len(tasks') = Len(tasks) + 1
          /\ SubSeq(tasks', 1, Len(tasks)) = tasks
          /\ IsTrimOf(tasks'[Len(tasks')].Description, textInput.value)
          /\ IsTrimOf(tasks'[Len(tasks')].Category, categoryInput.value)
          /\ tasks'[Len(tasks')].Status = StatusPending
          /\ IsFilterOf(mtasks', tasks', filterStatus, filterCategory)
          /\ viewMode' = ModeList]_vars

\* C4 witness: a second task has just been created after an earlier one
\* whose status had been changed.
C4_Witness ==
    /\ viewMode = ModeList
    /\ message.text = "Task created: %s [%s]"
    /\ Len(tasks) = 2
    /\ tasks[1].Status # StatusPending
    /\ tasks[2].Status = StatusPending

\* C5: Filter returns exactly the stored tasks that satisfy every non-nil
\* predicate, in insertion order (all of them when both are nil), and the
\* store is as it was.
C5_FilterCorrect ==
    /\ ret.op = "Filter" =>
          IsFilterOf(ret.out, tasks, ret.opts.Status, ret.opts.Category)
    /\ ret.op = "Filter" /\ ret.opts = NoOpts => ret.out = tasks

\* C5 witness: a call with both predicates set kept one of two tasks.
C5_Witness ==
    /\ ret.op = "Filter"
    /\ ret.opts.Status # Nil
    /\ ret.opts.Category # Nil
    /\ Len(tasks) = 2
    /\ Len(ret.out) = 1
    /\ ret.out[1] = tasks[2]

\* the same tasks in the same order: equal ids, descriptions, statuses and
\* categories, and timestamps that are the same instants
SameTasks(a, b) ==
    /\ Len(a) = Len(b)
    /\ \A i \in 1..Len(a) :
         /\ a[i].ID = b[i].ID
         /\ a[i].Description = b[i].Description
         /\ a[i].Status = b[i].Status
         /\ a[i].Category = b[i].Category
         /\ TimeEqual(a[i].CreatedAt, b[i].CreatedAt)
         /\ TimeEqual(a[i].UpdatedAt, b[i].UpdatedAt)

C7_UniqueIDs == UniqueIDs(tasks)

\* the mode changes an input event may make
ModeEdges ==
    {<<ModeList, ModeCreate>>, <<ModeList, ModeEdit>>, <<ModeList, ModeFilter>>,
     <<ModeFilter, ModeFilterCategory>>, <<ModeCreate, ModeList>>,
     <<ModeEdit, ModeList>>, <<ModeFilter, ModeList>>,
     <<ModeFilterCategory, ModeList>>}

\* C8: List is the initial mode, and an event changes the mode only along
\* List->Create, List->Edit, List->FilterStatus, FilterStatus->FilterCategory
\* or from any other mode back to List.
C8_ModeEdges ==
    /\ viewMode = ModeList
    /\ [][viewMode' # viewMode => <<viewMode, viewMode'>> \in ModeEdges]_vars

\* C8 witness: the category menu, two steps from List, was left for List.
C8_Witness ==
    /\ viewMode = ModeList
    /\ message.text = "Showing all categories"

\* C9: Esc in Create, Edit, FilterStatus or FilterCategory mode returns to
\* List and leaves the collection, the file, both filters, the visible list
\* and the cursor unchanged.
C9_CancelFrame ==
    [][(CreateEsc \/ EditEsc \/ FilterEsc \/ FilterCategoryEsc)
       => /\ viewMode' = ModeList
          /\ UNCHANGED <<tasks, file, filterStatus, filterCategory, mtasks, cursor>>]_vars

\* C9 witness: an edit with changed text was cancelled while a filter was
\* active and the cursor was on the second row.
C9_Witness ==
    /\ viewMode = ModeList
    /\ message.text = "Edit cancelled"
    /\ filterStatus # Nil
    /\ cursor = 1
    /\ Len(mtasks) = 2
    /\ textInput.value # mtasks[2].Description

\* the store index of the task under the cursor
CursorIndex == Nth(MatchingIndices(tasks, filterStatus, filterCategory), cursor + 1)

\* C10: an Edit confirm with a non-empty description gives the task under
\* the cursor the new description and category, changes no other task and
\* neither count nor order, clears the edit target, refreshes the visible
\* list and returns to List mode.
C10_EditUpdatesTarget ==
    [][(EditEnter /\ ~IsBlank(textInput.value))
       => /\ Len(tasks') = Len(tasks)
          /\ \A i \in 1..Len(tasks) : i # CursorIndex => tasks'[i] = tasks[i]
          /\ IsTrimOf(tasks'[CursorIndex].Description, textInput.value)
          /\ IsTrimOf(tasks'[CursorIndex].Category, categoryInput.value)
          /\ tasks'[CursorIndex].ID = tasks[CursorIndex].ID
          /\ tasks'[CursorIndex].Status = tasks[CursorIndex].Status
          /\ tasks'[CursorIndex].CreatedAt = tasks[CursorIndex].CreatedAt
          /\ editingTaskID' = EmptyID
          /\ IsFilterOf(mtasks', tasks', filterStatus, filterCategory)
          /\ viewMode' = ModeList]_vars

\* the same on stores whose ids are distinct, where it holds: the failure of
\* C10 rests on two tasks sharing an id (C7) alone
C10_EditUpdatesTargetUnique ==
    [][(EditEnter /\ ~IsBlank(textInput.value) /\ UniqueIDs(tasks))
       => /\ Len(tasks') = Len(tasks)
          /\ \A i \in 1..Len(tasks) : i # CursorIndex => tasks'[i] = tasks[i]
          /\ IsTrimOf(tasks'[CursorIndex].Description, textInput.value)
          /\ IsTrimOf(tasks'[CursorIndex].Category, categoryInput.value)
          /\ editingTaskID' = EmptyID
          /\ viewMode' = ModeList]_vars

\* C11: in Edit mode, Enter with a description that is empty after trimming
\* is a cancellation: the store and the file are as they were (Store.Update
\* is not called), the edit-target id is cleared, the mode is List, and the
\* message says the edit was cancelled because the description is required
C11_EditRejected ==
    [][(EditEnter /\ IsBlank(textInput.value))
        => /\ tasks' = tasks
           /\ file' = file
           /\ editingTaskID' = EmptyID
           /\ viewMode' = ModeList
           /\ message' = Msg("Edit cancelled - description is required")]_vars

\* an edit of a stored task was confirmed with a blank description
C11_Witness ==
    /\ message = Msg("Edit cancelled - description is required")
    /\ viewMode = ModeList
    /\ editingTaskID = EmptyID
    /\ Len(tasks) > 0
    /\ IsBlank(textInput.value)

\* C12: starting from an empty store, after any sequence of input events
\* every stored task has a non-empty category
C12_CategoryAssigned == \A i \in 1..Len(tasks) : tasks[i].Category # <<>>

\* C13: in FilterStatus mode p, i and d set the status filter to Pending,
\* InProgress and Done, leave the category filter as it is, put the cursor
\* at 0, re-derive the visible list, go back to List and leave the store
\* and the file alone
C13_StatusFilterApplied ==
    [][/\ FilterPending => filterStatus' = Ptr(StatusPending)
       /\ FilterInProgress => filterStatus' = Ptr(StatusInProgress)
       /\ FilterDone => filterStatus' = Ptr(StatusDone)
       /\ (FilterPending \/ FilterInProgress \/ FilterDone)
            => /\ filterCategory' = filterCategory
               /\ cursor' = 0
               /\ IsFilterOf(mtasks', tasks, filterStatus', filterCategory)
               /\ viewMode' = ModeList
               /\ tasks' = tasks
               /\ file' = file]_vars

\* a status was chosen while a category filter was in force, and it hid a
\* stored task
C13_Witness ==
    /\ message = Msg("Showing done tasks")
    /\ filterStatus = Ptr(StatusDone)
    /\ filterCategory # Nil
    /\ viewMode = ModeList
    /\ Len(mtasks) < Len(tasks)

\* C14: in FilterCategory mode, digit k with 1 <= k <= count sets the
\* category filter to the category numbered [k] in the menu drawn
\* immediately before the key press
C14_SelectsShown ==
    [][\A k \in Digits :
          (FilterCategoryKey(k) /\ k <= Len(shown))
            => filterCategory' = Ptr(shown[k])]_vars

\* C15: in FilterCategory mode a digit above the number of distinct
\* non-empty categories, and any key other than Esc, a or a valid digit,
\* is rejected: the mode stays FilterCategory, and the filters, the cursor,
\* the visible list, the store and the file are unchanged
C15_InvalidSelectionRejected ==
    [][(\/ FilterCategoryOther
        \/ \E k \in Digits : /\ k > Cardinality(CategorySet(tasks))
                              /\ FilterCategoryKey(k))
        => /\ viewMode' = ModeFilterCategory
           /\ UNCHANGED <<filterStatus, filterCategory, cursor, mtasks, tasks,
                          file>>]_vars

\* the category menu open on one category with both filters in force and
\* the cursor off row 0: a state digit 2 is pressed in, and is left in
C15_Witness ==
    /\ viewMode = ModeFilterCategory
    /\ Cardinality(CategorySet(tasks)) = 1
    /\ Len(shown) = 1
    /\ filterCategory # Nil
    /\ filterStatus # Nil
    /\ Len(tasks) = 2
    /\ cursor = 1

\* C16: a in FilterStatus mode clears the status and the category filter
\* and shows every stored task; a in FilterCategory mode clears the
\* category filter and keeps the status filter; both put the cursor at 0
\* and go back to List
C16_ShowAll ==
    [][/\ FilterAll => (filterStatus' = Nil /\ filterCategory' = Nil
                         /\ mtasks' = tasks)
       /\ FilterCategoryAll => (filterCategory' = Nil
                                 /\ filterStatus' = filterStatus
                                 /\ IsFilterOf(mtasks', tasks, filterStatus, Nil))
       /\ (FilterAll \/ FilterCategoryAll)
            => (cursor' = 0 /\ viewMode' = ModeList /\ tasks' = tasks)]_vars

\* a of the category menu was pressed under a status filter that hides a
\* task
C16_Witness ==
    /\ message = Msg("Showing all categories")
    /\ viewMode = ModeList
    /\ filterStatus # Nil
    /\ filterCategory = Nil
    /\ cursor = 0
    /\ Len(mtasks) < Len(tasks)

\* the task under the cursor has the given status after the step, no other
\* task's status differs, and the visible list is re-derived
StatusSetTo(status) ==
    /\ Len(tasks') = Len(tasks)
    /\ tasks'[CursorIndex].Status = status
    /\ \A i \in 1..Len(tasks) : i # CursorIndex => tasks'[i].Status = tasks[i].Status
    /\ IsFilterOf(mtasks', tasks', filterStatus, filterCategory)

\* C17: in List mode with a task under the cursor, d sets that task Done,
\* or Pending when it is Done already, i sets InProgress and p sets
\* Pending; exactly the task under the cursor is changed and the visible
\* list is re-derived; with no task under the cursor the store is unchanged
C17_StatusKeys ==
    [][/\ (ListDone /\ hasCurrentTask)
            => StatusSetTo(IF getCurrentTask.Status = StatusDone
                           THEN StatusPending ELSE StatusDone)
       /\ (ListInProgress /\ hasCurrentTask) => StatusSetTo(StatusInProgress)
       /\ (ListPending /\ hasCurrentTask) => StatusSetTo(StatusPending)
       /\ ((ListDone \/ ListInProgress \/ ListPending) /\ ~hasCurrentTask)
            => (tasks' = tasks /\ file' = file)]_vars

\* a collection without its element at index idx
Without(ts, idx) == SubSeq(ts, 1, idx - 1) \o SubSeq(ts, idx + 1, Len(ts))

\* C18: x in List mode removes the task under the cursor from the store and
\* re-derives the visible list; when the deleted row was the last visible
\* row the cursor goes back by one, not below 0, and otherwise it stays
C18_DeleteRow ==
    [][(ListDelete /\ hasCurrentTask)
        => /\ tasks' = Without(tasks, CursorIndex)
           /\ IsFilterOf(mtasks', tasks', filterStatus, filterCategory)
           /\ cursor' = IF cursor = Len(mtasks) - 1 /\ cursor > 0
                         THEN cursor - 1 ELSE cursor]_vars

\* C19: a cursor move in List mode changes the cursor by at most one and
\* never wraps: up at 0 and down at the last visible row are no-ops, up
\* never makes the cursor negative, down never moves it to the visible
\* count or past it, and the store, the file, the filters, the mode and
\* the visible list are unchanged
C19_CursorMoves ==
    [][(ListUp \/ ListDown)
        => /\ cursor' - cursor \in {0 - 1, 0, 1}
           /\ cursor' >= 0
           /\ cursor' # cursor => cursor' < Len(mtasks)
           /\ ListUp => (cursor' <= cursor /\ (cursor = 0 => cursor' = 0))
           /\ ListDown => (cursor' >= cursor
                            /\ (cursor = Len(mtasks) - 1 => cursor' = cursor))
           /\ UNCHANGED <<tasks, file, filterStatus, filterCategory, viewMode,
                          mtasks>>]_vars

\* the cursor was moved down to the last of two visible rows
C19_Witness ==
    /\ viewMode = ModeList
    /\ Len(mtasks) = 2
    /\ cursor = 1

\* a direct call of one of the five id-taking methods with the given id
CalledWith(id) ==
    \/ /\ ret'.op = "UpdateStatus"
       /\ \E st \in Statuses :
             StoreCall("UpdateStatus", UpdateStatus(tasks, id, st, now))
    \/ /\ ret'.op = "UpdateDescription"
       /\ \E d \in Strs :
             StoreCall("UpdateDescription", UpdateDescription(tasks, id, d, now))
    \/ /\ ret'.op = "UpdateCategory"
       /\ \E c \in Strs :
             StoreCall("UpdateCategory", UpdateCategory(tasks, id, c, now))
    \/ /\ ret'.op = "Update"
       /\ \E d \in Strs, c \in Strs :
             StoreCall("Update", Update(tasks, id, d, c, now))
    \/ /\ ret'.op = "Delete"
       /\ StoreCall("Delete", Delete(tasks, id))

\* C20: UpdateStatus, UpdateDescription, UpdateCategory, Update and Delete
\* called with an id that no stored task has return no error and leave the
\* collection (tasks, fields, order) and the file content unchanged
C20_AbsentIdNoOp ==
    [][\A id \in CallIDs :
          ((\A i \in 1..Len(tasks) : tasks[i].ID # id) /\ CalledWith(id))
            => (tasks' = tasks /\ file' = file /\ ~ret'.err)]_vars

\* Delete has just returned on a store of two tasks, saved a clock window
\* ago, that it left complete: the id it was given is not in the store
C20_Witness ==
    /\ ret.op = "Delete"
    /\ ~ret.err
    /\ Len(tasks) = MaxTasks
    /\ file = Save(tasks)
    /\ \A i \in 1..Len(tasks) : tasks[i].UpdatedAt.wall < now

\* whether out lists each non-empty category of ts once and nothing else
CategoriesExact(out, ts) ==
    /\ \A i \in 1..Len(ts) :
         ts[i].Category # <<>>
           => Cardinality({k \in 1..Len(out) : out[k] = ts[i].Category}) = 1
    /\ \A k \in 1..Len(out) :
         /\ out[k] # <<>>
         /\ \E i \in 1..Len(ts) : ts[i].Category = out[k]

\* C21: GetCategories returns exactly the distinct non-empty category
\* labels of the stored tasks: each label in use once, never the empty
\* label, no label that is not in use, and the store is not modified
C21_CategoriesExact ==
    [][StoreGetCategories
        => (tasks' = tasks /\ file' = file /\ CategoriesExact(ret'.out, tasks))]_vars

\* GetCategories has returned one label on a store of two tasks, one of
\* them without a category
C21_Witness ==
    /\ ret.op = "GetCategories"
    /\ Len(ret.out) = 1
    /\ Len(tasks) = 2
    /\ \E i \in 1..2 : tasks[i].Category = <<>>

\* the messages that report a failed store call
ErrorTexts ==
    {"Error creating task: %v", "Error updating task: %v", "Error deleting task: %v"}

\* C22: when Save fails inside Add, Update* or Delete the error reaches the
\* caller (the handler's message reports it), the in-memory collection
\* keeps the mutation, the persisted file keeps its previous content, and
\* the visible list after the handler is derived from the mutated collection
C22_FailedSave ==
    [][(failed' # failed)
        => /\ CreateEnter => (Len(tasks') = Len(tasks) + 1
                               /\ message'.text = "Error creating task: %v")
           /\ ListDelete => (Len(tasks') = Len(tasks) - 1
                              /\ message'.text = "Error deleting task: %v")
           /\ EditEnter => (/\ \E i \in 1..Len(tasks) :
                                   IsTrimOf(tasks'[i].Description, textInput.value)
                             /\ message'.text = "Error updating task: %v")
           /\ ListInProgress
                => \E i \in 1..Len(tasks) : tasks'[i].Status = StatusInProgress
           /\ file' = file
           /\ IsFilterOf(mtasks', tasks', filterStatus, filterCategory)]_vars

\* C23: whenever a store call made by a handler returns an error (Add on
\* create, Update on edit, UpdateStatus on d, i, p, Delete on x), the
\* message after the handler reports the failure and the controller keeps
\* running in a valid mode
C23_FailureReported ==
    [][(failed' # failed)
        => /\ message'.text \in ErrorTexts
           /\ viewMode' \in ViewModes
           /\ ~quitting']_vars

\* whether the file holds the whole collection, task by task, in order
FileHolds(f, ts) ==
    /\ f.exists /\ f.whole
    /\ Len(f.data) = Len(ts)
    /\ \A i \in 1..Len(ts) :
         /\ f.data[i].id = ts[i].ID
         /\ f.data[i].description = ts[i].Description
         /\ f.data[i].status = ts[i].Status
         /\ f.data[i].category = ts[i].Category
         /\ f.data[i].created_at = ts[i].CreatedAt.wall
         /\ f.data[i].updated_at = ts[i].UpdatedAt.wall

\* C24: after every mutating store call (Add, or Update*/Delete on a
\* present id) that returns without error the file holds the entire
\* in-memory collection in order, mutations of earlier calls whose Save
\* failed included; and while no Save has failed, the file holds the
\* collection after every call (there is no file while nothing was saved);
\* the first part is written from its conclusion: a file that does not
\* hold the collection is not left by such a call
C24_WholesaleRewrite ==
    [][/\ ~FileHolds(file', tasks')
            => ~(/\ ~ret'.err
                 /\ \/ StoreAdd
                    \/ \E id \in CallIDs :
                          /\ \E i \in 1..Len(tasks) : tasks[i].ID = id
                          /\ CalledWith(id))
       /\ (failed' = 0)
            => (FileHolds(file', tasks') \/ (~file'.exists /\ tasks' = <<>>))]_vars

\* a call has just succeeded on a store whose earlier write had failed, and
\* the file holds both tasks
C24_Witness ==
    /\ failed = 1
    /\ ~ret.err
    /\ ret.op = "UpdateStatus"
    /\ Len(tasks) = 2
    /\ FileHolds(file, tasks)

\* C25: at startup, with the data directory available and no file, main
\* takes Load's not-exist error as an empty store and starts the loop on
\* an empty list; with a file that does not parse, or with no home or data
\* directory, NewTaskStore fails, main exits with status 1, and no key is
\* ever handled; startup never writes the file
C25_Startup ==
    [][/\ (pc = "main" /\ homeDir = "ok" /\ ~file.exists) =>
            /\ pc' = "Run"
            /\ tasks' = <<>>
            /\ mtasks' = <<>>
            /\ viewMode' = ModeList
            /\ ~quitting'
       /\ (pc = "main" /\ (homeDir # "ok" \/ (file.exists /\ ~file.whole))) =>
            /\ pc' = "exit1"
            /\ tasks' = <<>>
       /\ pc = "main" => file' = file
       /\ pc # "exit1"]_vars

\* main has exited with status 1 on a file that does not parse
C25_Witness == pc = "exit1" /\ homeDir = "ok" /\ file = PartialFile

\* one of the four updating operations called with id
UpdatedWith(id) ==
    \/ /\ ret'.op = "UpdateStatus"
       /\ \E st \in Statuses :
             StoreCall("UpdateStatus", UpdateStatus(tasks, id, st, now))
    \/ /\ ret'.op = "UpdateDescription"
       /\ \E d \in Strs :
             StoreCall("UpdateDescription", UpdateDescription(tasks, id, d, now))
    \/ /\ ret'.op = "UpdateCategory"
       /\ \E c \in Strs :
             StoreCall("UpdateCategory", UpdateCategory(tasks, id, c, now))
    \/ /\ ret'.op = "Update"
       /\ \E d \in Strs, c \in Strs :
             StoreCall("Update", Update(tasks, id, d, c, now))

\* C26: UpdateStatus, UpdateDescription, UpdateCategory and Update called
\* with the id of a stored task leave a task of that id with an updatedAt
\* strictly later than it had, and every other task's updatedAt as it was
C26_UpdatedAtAdvances ==
    [][\A id \in CallIDs :
          ((\E i \in 1..Len(tasks) : tasks[i].ID = id) /\ UpdatedWith(id))
            => /\ Len(tasks') = Len(tasks)
               /\ \E i \in 1..Len(tasks) :
                     /\ tasks[i].ID = id
                     /\ tasks'[i].UpdatedAt.wall > tasks[i].UpdatedAt.wall
                     /\ \A j \in 1..Len(tasks) :
                           j # i => tasks'[j].UpdatedAt = tasks[j].UpdatedAt]_vars

\* a task is under the cursor: the cursor is below the number of stored
\* tasks that satisfy the active filters
TaskAtCursor == cursor < Cardinality(MatchingIndices(tasks, filterStatus, filterCategory))

\* C27: List is left for Edit only with a task under the cursor; on entry
\* the edit target is that task's id, the two buffers hold its description
\* and its category, and the description buffer alone has focus; e with no
\* task under the cursor changes neither mode, buffers, edit target nor
\* store, and e with a task under the cursor enters Edit
C27_EditEntry ==
    [][/\ (viewMode = ModeList /\ viewMode' = ModeEdit) =>
            /\ TaskAtCursor
            /\ editingTaskID' = tasks[CursorIndex].ID
            /\ textInput'.value = tasks[CursorIndex].Description
            /\ categoryInput'.value = tasks[CursorIndex].Category
            /\ textInput'.focus /\ ~categoryInput'.focus /\ activeInput' = 0
            /\ tasks' = tasks /\ file' = file
       /\ ListEdit =>
            IF TaskAtCursor
            THEN viewMode' = ModeEdit
            ELSE UNCHANGED <<viewMode, textInput, categoryInput, editingTaskID,
                             tasks, file>>]_vars

\* Edit has just been entered on the second of two visible tasks, whose
\* id is not the first one's
C27_Witness ==
    /\ viewMode = ModeEdit
    /\ Len(mtasks) = 2 /\ cursor = 1
    /\ mtasks[1].ID # mtasks[2].ID
    /\ editingTaskID = mtasks[2].ID
    /\ textInput.value = mtasks[2].Description
    /\ categoryInput.value = mtasks[2].Category
    /\ activeInput = 0
    /\ message.text = "Edit task (Tab to switch fields, Enter to save, ESC to cancel)"

\* C28: List is left for Create with both buffers empty, the description
\* buffer alone focused, no edit target, and the store and the file as
\* they were, whatever the buffers and the edit target held before; n in
\* List always enters Create
C28_CreateEntry ==
    [][/\ (viewMode = ModeList /\ viewMode' = ModeCreate) =>
            /\ textInput'.value = <<>>
            /\ categoryInput'.value = <<>>
            /\ textInput'.focus /\ ~categoryInput'.focus /\ activeInput' = 0
            /\ editingTaskID' = EmptyID
            /\ tasks' = tasks /\ file' = file
       /\ ListNew => viewMode' = ModeCreate]_vars

\* Create has just been entered with a task in the store
C28_Witness ==
    /\ viewMode = ModeCreate
    /\ message.text = "Enter task details (Tab to switch fields, Enter to save, ESC to cancel)"
    /\ textInput.value = <<>> /\ categoryInput.value = <<>>
    /\ activeInput = 0
    /\ editingTaskID = EmptyID
    /\ Len(tasks) > 0

\* the two forms
FormModes == {ModeCreate, ModeEdit}

\* activeInput names the one buffer that has focus
FocusAgrees ==
    /\ activeInput \in {0, 1}
    /\ textInput.focus = (activeInput = 0)
    /\ categoryInput.focus = (activeInput = 1)

\* C29: in Create and in Edit, activeInput is 0 or 1 and exactly the
\* buffer it names has focus; Tab moves the focus to the other buffer (so
\* a second Tab moves it back) and changes no buffer's text; a step that
\* stays in the form and changes a buffer's text changes only the focused
\* buffer and leaves the focus where it was; none of these changes the
\* mode, the store or the file
C29_Focus ==
    [][/\ viewMode' \in FormModes => FocusAgrees'
       /\ (CreateTab \/ EditTab) =>
            /\ activeInput' = 1 - activeInput
            /\ textInput'.value = textInput.value
            /\ categoryInput'.value = categoryInput.value
            /\ viewMode' = viewMode /\ tasks' = tasks /\ file' = file
       /\ (/\ viewMode \in FormModes
           /\ viewMode' = viewMode
           /\ <<textInput.value, categoryInput.value>>
                # <<textInput'.value, categoryInput'.value>>) =>
            /\ IF activeInput = 0
               THEN categoryInput' = categoryInput
               ELSE textInput' = textInput
            /\ activeInput' = activeInput
            /\ tasks' = tasks /\ file' = file]_vars

\* in Create, after a Tab, a character typed into the category buffer
\* alone
C29_Witness ==
    /\ viewMode = ModeCreate
    /\ activeInput = 1
    /\ categoryInput.focus /\ ~textInput.focus
    /\ categoryInput.value = <<"a">>
    /\ textInput.value = <<>>

\* C30: the quitting flag changes only in List mode and only to TRUE, in a
\* step that changes neither the store, the file nor the mode; q or ctrl+c
\* in List sets it; once set it stays set, and no key is handled after it
C30_QuitOnlyInList ==
    [][/\ (quitting' # quitting) =>
            /\ viewMode = ModeList
            /\ quitting'
            /\ viewMode' = viewMode /\ tasks' = tasks /\ file' = file
       /\ ListQuit => quitting'
       /\ quitting => (quitting' /\ UNCHANGED <<tasks, file, modelVars>>)]_vars

\* the program has quit from the list with a saved task in the store
C30_Witness ==
    /\ quitting
    /\ viewMode = ModeList
    /\ Len(tasks) > 0
    /\ file = Save(tasks)

\* C31: the controller state that main builds from the store it has
\* constructed is: mode List, cursor 0, no status and no category filter,
\* the description buffer focused and named by activeInput, not quitting,
\* no edit target, and a visible list that is the stored tasks, all of
\* them and in their order, which are those of the file if there is one
C31_InitialModel ==
    [][(pc = "main" /\ pc' = "Run") =>
          /\ viewMode' = ModeList
          /\ cursor' = 0
          /\ filterStatus' = Nil /\ filterCategory' = Nil
          /\ textInput'.focus /\ ~categoryInput'.focus /\ activeInput' = 0
          /\ textInput'.value = <<>> /\ categoryInput'.value = <<>>
          /\ ~quitting'
          /\ editingTaskID' = EmptyID
          /\ mtasks' = tasks'
          /\ Len(tasks') = Len(file.data)
          /\ \A i \in 1..Len(tasks') : tasks'[i].ID = file.data[i].id]_vars

\* the loop has just started on the two tasks of an earlier run, which
\* differ in category
C31_Witness ==
    /\ pc = "Run"
    /\ message = Msg("")
    /\ Len(tasks) = 2
    /\ tasks[1].Category # tasks[2].Category
    /\ mtasks = tasks
    /\ viewMode = ModeList /\ cursor = 0

\* Delete called with id
DeletedWith(id) == ret'.op = "Delete" /\ StoreCall("Delete", Delete(tasks, id))

\* one task holding id is gone, none holding it is left, and the others
\* are as they were, in their order
RemovedExactly(id) ==
    /\ Len(tasks') = Len(tasks) - 1
    /\ \A i \in 1..Len(tasks') : tasks'[i].ID # id
    /\ \E idx \in 1..Len(tasks) : tasks[idx].ID = id /\ tasks' = Without(tasks, idx)

\* C32: Delete called with the id of a stored task removes exactly one
\* task, the one with that id: one task fewer, none left with that id,
\* and the remaining tasks unchanged in fields and relative order
C32_DeleteRemovesOne ==
    [][\A id \in CallIDs :
          ((\E i \in 1..Len(tasks) : tasks[i].ID = id) /\ DeletedWith(id))
            => RemovedExactly(id)]_vars

\* the same, for stores whose ids are distinct
C32_DeleteRemovesOneUnique ==
    [][\A id \in CallIDs :
          ((\E i \in 1..Len(tasks) : tasks[i].ID = id) /\ UniqueIDs(tasks)
             /\ DeletedWith(id))
            => RemovedExactly(id)]_vars

\* C33: the collection and the file change only in a d, i, p or x step of
\* List with a task under the cursor, in a Create confirm with a non-blank
\* description and category, or in an Edit confirm with a non-blank
\* description; every other step leaves both as they were
C33_MutatingEvents ==
    [][(tasks' # tasks \/ file' # file) =>
          \/ /\ viewMode = ModeList
             /\ TaskAtCursor
             /\ ListDone \/ ListInProgress \/ ListPending \/ ListDelete
          \/ /\ viewMode = ModeCreate
             /\ ~IsBlank(textInput.value) /\ ~IsBlank(categoryInput.value)
             /\ CreateEnter
          \/ /\ viewMode = ModeEdit
             /\ ~IsBlank(textInput.value)
             /\ EditEnter]_vars

\* the category menu is open, in the compact view and after a clock
\* reading, over a store of two tasks that the file holds
C33_Witness ==
    /\ viewMode = ModeFilterCategory
    /\ ~viewAsTable
    /\ now > 0
    /\ Len(tasks) = 2
    /\ file = Save(tasks)

\* C34: the two active filters change only in an a, p, i or d step of the
\* status menu, or in an a step or the step of a digit that numbers a
\* category of the category menu; every step taken in List, Create or
\* Edit, the steps that create, edit, re-status and delete tasks included,
\* leaves both filters as they were, whether or not a task still matches
C34_FiltersChangeOnApply ==
    [][/\ (filterStatus' # filterStatus \/ filterCategory' # filterCategory) =>
            \/ /\ viewMode = ModeFilter
               /\ FilterAll \/ FilterPending \/ FilterInProgress \/ FilterDone
            \/ /\ viewMode = ModeFilterCategory
               /\ FilterCategoryAll
            \/ /\ viewMode = ModeFilterCategory
               /\ \E digit \in 1..Cardinality(CategorySet(tasks)) :
                     FilterCategoryKey(digit)
               /\ filterStatus' = filterStatus
               /\ filterCategory' # Nil
               /\ Deref(filterCategory') \in CategorySet(tasks)
       /\ viewMode \in {ModeList, ModeCreate, ModeEdit} =>
            UNCHANGED <<filterStatus, filterCategory>>]_vars

\* in List, a task has just been marked done under a pending filter that
\* no stored task matches any more
C34_Witness ==
    /\ viewMode = ModeList
    /\ filterStatus = Ptr(StatusPending)
    /\ message = Msg("Task marked as done!")
    /\ Len(tasks) > 0
    /\ \A i \in 1..Len(tasks) : tasks[i].Status # StatusPending
    /\ mtasks = <<>>

\* the id and the creation instant of each task, in the store's order
Keys(ts) == [i \in 1..Len(ts) |-> <<ts[i].ID, ts[i].CreatedAt.wall>>]

\* the fields an updating operation is named for
NamedFields(op) ==
    CASE op = "UpdateStatus" -> {"Status"}
      [] op = "UpdateDescription" -> {"Description"}
      [] op = "UpdateCategory" -> {"Category"}
      [] op = "Update" -> {"Description", "Category"}
      [] OTHER -> {}

\* C35: no call of the store changes the id or the creation instant of a
\* task that stays, or its place among the tasks that stay: the ids and
\* creation instants after a call are those before it, or those with one
\* appended, or those with one removed.  UpdateStatus, UpdateDescription,
\* UpdateCategory and Update called with the id of a stored task change,
\* in one task of that id, at most the fields they are named for and
\* updatedAt, and change no other task
C35_UpdateFrame ==
    [][/\ \/ tasks' = tasks
          \/ Keys(tasks') = Keys(tasks)
          \/ /\ Len(tasks') = Len(tasks) + 1
             /\ SubSeq(Keys(tasks'), 1, Len(tasks)) = Keys(tasks)
          \/ \E idx \in 1..Len(tasks) : Keys(tasks') = Without(Keys(tasks), idx)
       /\ \A id \in {tasks[i].ID : i \in 1..Len(tasks)} :
            (tasks' # tasks /\ NamedFields(ret'.op) # {} /\ UpdatedWith(id)) =>
               /\ Len(tasks') = Len(tasks)
               /\ \E i \in 1..Len(tasks) :
                     /\ tasks[i].ID = id
                     /\ \A j \in 1..Len(tasks) : j # i => tasks'[j] = tasks[j]
                     /\ \A f \in {"ID", "Description", "Status", "Category",
                                  "CreatedAt"} \ NamedFields(ret'.op) :
                           tasks'[i][f] = tasks[i][f]]_vars

\* UpdateCategory has just given the first of two tasks the empty
\* category, a clock reading after it was added
C35_Witness ==
    /\ ret.op = "UpdateCategory"
    /\ Len(tasks) = 2
    /\ tasks[1].ID # tasks[2].ID
    /\ tasks[1].Category = <<>>
    /\ tasks[2].Category # <<>>
    /\ tasks[1].UpdatedAt.wall > tasks[1].CreatedAt.wall

\* C36: in every reachable state the edit target is set only in Edit
\* mode, and in Edit mode it is the id of a stored task, so that the
\* Update of an Edit confirm always finds its task
C36_EditTargetPresent ==
    /\ editingTaskID # EmptyID => viewMode = ModeEdit
    /\ viewMode = ModeEdit =>
          /\ editingTaskID # EmptyID
          /\ findTaskIndex(tasks, editingTaskID) # 0

\* Edit is open on the second of two stored tasks with distinct ids
C36_Witness ==
    /\ viewMode = ModeEdit
    /\ Len(tasks) = 2
    /\ tasks[1].ID # tasks[2].ID
    /\ editingTaskID = tasks[2].ID

\* C37: in every state the interactive program reaches, every stored task
\* has a non-empty description and one of the three statuses
C37_TasksWellFormed ==
    \A i \in 1..Len(tasks) :
        /\ tasks[i].Description # <<>>
        /\ tasks[i].Status \in Statuses

\* an Edit confirm has just been saved in a store of two tasks, one done
\* and one in progress
C37_Witness ==
    /\ message = Msg("Task updated successfully")
    /\ Len(tasks) = 2
    /\ {tasks[1].Status, tasks[2].Status} = {StatusDone, StatusInProgress}

\* updateListMode "d" as a function: the collection after the key, given
\* the collection, the visible list, the cursor and the clock reading
DoneKey(ts, visible, c, t) ==
    IF Len(visible) > 0 /\ c < Len(visible)
    THEN UpdateStatus(ts, visible[c + 1].ID,
                      IF visible[c + 1].Status = StatusDone
                      THEN StatusPending ELSE StatusDone, t).tasks
    ELSE ts

\* the statuses of ts are those of us, task by task
SameStatuses(ts, us) ==
    /\ Len(ts) = Len(us)
    /\ \A i \in 1..Len(ts) : ts[i].Status = us[i].Status

KeySets(digit, c) ==
    /\ ENABLED FilterCategoryKey(digit)
    /\ ~ENABLED (/\ FilterCategoryKey(digit)
                 /\ ~(filterCategory' = Ptr(c) /\ viewMode' = ModeList))

\* pressing the digit can select category c: in some order the handler's
\* GetCategories can yield
KeyCanSet(digit, c) ==
    ENABLED (/\ FilterCategoryKey(digit)
             /\ filterCategory' = Ptr(c)
             /\ viewMode' = ModeList)

\* C39: in FilterCategory mode, for every distinct non-empty category of
\* the store there is a digit key that, pressed, sets the category filter
\* to that category
C39_EveryCategorySelectable ==
    (Running /\ viewMode = ModeFilterCategory) =>
        \A c \in CategorySet(tasks) : \E digit \in Digits : KeySets(digit, c)

\* the same, for a key that can set the filter to the category
C39_EveryCategoryPossible ==
    (Running /\ viewMode = ModeFilterCategory) =>
        \A c \in CategorySet(tasks) : \E digit \in Digits : KeyCanSet(digit, c)

\* the same as C39, for stores of one category
C39_SingleCategorySelectable ==
    (Running /\ viewMode = ModeFilterCategory /\ Cardinality(CategorySet(tasks)) = 1) =>
        \A c \in CategorySet(tasks) : \E digit \in Digits : KeySets(digit, c)

====
